---- MODULE Spec2Model ----
(***************************************************************************)
(* Model of notebooks/inundation/utilities.py: the longitude wrappers      *)
(* wrap_lon180 / wrap_lon360, the index builder make_tree and the          *)
(* nearest-water search get_nearest_water.                                 *)
(*                                                                         *)
(* Conventions.                                                            *)
(*  - A numpy array is a record [shape, flat]: its shape tuple and its     *)
(*    elements in row-major (C) order.  A scalar is the 0-d array          *)
(*    [shape |-> <<>>, flat |-> <<v>>].  Identifiers and cell coordinates  *)
(*    are 0-based as in numpy; TLA+ sequences are 1-based, so element n    *)
(*    of an array a is a.flat[n + 1].                                      *)
(*  - Longitudes, latitudes and data values are integers (whole degrees,   *)
(*    whole data units).                                                   *)
(*  - A Euclidean distance d is carried by its square d2, which orders the *)
(*    same way; the missing neighbours of a KDTree query carry inf.        *)
(*  - A data value is [valid, v]; a NaN (or masked) value has valid FALSE. *)
(***************************************************************************)
EXTENDS Integers, Sequences, FiniteSets, TLC

VARIABLES lon_arg, lon_ret, ncalls, cube, tree, res

vars == <<lon_arg, lon_ret, ncalls, cube, tree, res>>

(***************************************************************************)
(* Bounds of the model.                                                    *)
(***************************************************************************)
\* scalar longitudes given to wrap_lon180 range over -LonBound..LonBound
LonBound == 725
\* how many times in a row the notebook feeds wrap_lon180 its own result
MaxCalls == 2
\* neighbour counts k range over 1..MaxK
MaxK == 4
\* finite search radii max_dist range over 0..MaxDistBound
MaxDistBound == 2
\* variance thresholds min_var range over 0..MaxMinVar
MaxMinVar == 2

(***************************************************************************)
(* numpy helpers.                                                          *)
(***************************************************************************)
Array(shape, flat) == [shape |-> shape, flat |-> flat]

Scalar(v) == Array(<<>>, <<v>>)

Vec(s) == Array(<<Len(s)>>, s)

EmptyArr == Array(<<0>>, <<>>)

ndim(a) == Len(a.shape)

RECURSIVE Prod(_)
Prod(shape) == IF shape = <<>> THEN 1 ELSE Head(shape) * Prod(Tail(shape))

\* np.atleast_1d(lon).copy(): a scalar becomes a one-element vector
atleast_1d(a) == IF ndim(a) = 0 THEN Array(<<1>>, a.flat) ELSE a

\* a[mask]: the elements of a flat sequence selected by a boolean mask
RECURSIVE Compress(_, _)
Compress(s, mask) ==
    IF s = <<>> THEN <<>>
    ELSE IF Head(mask) THEN <<Head(s)>> \o Compress(Tail(s), Tail(mask))
         ELSE Compress(Tail(s), Tail(mask))

\* a[mask] = vals: the selected elements overwritten, in order, by vals
RECURSIVE Scatter(_, _, _)
Scatter(s, mask, vals) ==
    IF s = <<>> THEN <<>>
    ELSE IF Head(mask) THEN <<Head(vals)>> \o Scatter(Tail(s), Tail(mask), Tail(vals))
         ELSE <<Head(s)>> \o Scatter(Tail(s), Tail(mask), vals)

(***************************************************************************)
(* Longitude wrappers.                                                     *)
(***************************************************************************)
\* mutant: the reduction modulo 360 without the special case that keeps a
\* positive multiple of 360 at 360, and with the wrong modulus
wrap_lon360_mod180(lon) ==
    LET a == atleast_1d(lon)
    IN  Array(a.shape, [n \in DOMAIN a.flat |-> a.flat[n] % 180])

wrap_lon360(lon) ==
    LET a        == atleast_1d(lon)
        positive == [n \in DOMAIN a.flat |-> a.flat[n] > 0]
        m        == [n \in DOMAIN a.flat |-> a.flat[n] % 360]
    IN  Array(a.shape,
              [n \in DOMAIN a.flat |-> IF m[n] = 0 /\ positive[n] THEN 360 ELSE m[n]])

\* mutant: the shift back by 180 is forgotten
wrap_lon180_noshift(lon) ==
    LET a      == atleast_1d(lon)
        angles == [n \in DOMAIN a.flat |-> (a.flat[n] < -180) \/ (180 < a.flat[n])]
        sub    == Compress(a.flat, angles)
        w      == wrap_lon360(Vec([n \in DOMAIN sub |-> sub[n] + 180])).flat
    IN  Array(a.shape, Scatter(a.flat, angles, w))

\* mutant: the other convention's wrapper is applied to every element
wrap_lon180_as360(lon) == wrap_lon360(lon)

wrap_lon180(lon) ==
    LET a      == atleast_1d(lon)
        angles == [n \in DOMAIN a.flat |-> (a.flat[n] < -180) \/ (180 < a.flat[n])]
        sub    == Compress(a.flat, angles)
        w      == wrap_lon360(Vec([n \in DOMAIN sub |-> sub[n] + 180])).flat
    IN  Array(a.shape, Scatter(a.flat, angles, [n \in DOMAIN w |-> w[n] - 180]))

(***************************************************************************)
(* The cube (iris) and its coordinates.                                    *)
(*   ndim   : number of dimensions of the cube, time first                 *)
(*   sshape : shape of the cube without its leading time dimension         *)
(*   X, Y   : points of the coordinates of axis 'X' and axis 'Y'           *)
(*   data   : one time series per cell, cells in row-major order           *)
(***************************************************************************)
NaN == [valid |-> FALSE, v |-> 0]

Val(v) == [valid |-> TRUE, v |-> v]

NoCube == [ndim |-> 0, sshape |-> <<>>, X |-> EmptyArr, Y |-> EmptyArr, data |-> <<>>]

\* a flat series, and a series that varies only once its NaN is filled with 0
SeriesSamples == { <<Val(2), Val(2)>>, <<NaN, Val(2)>> }

LonAxes == { <<0>>, <<0, 1, 2>>, <<359, 1, 181>>, <<180, 540>> }

LatAxes == { <<0>>, <<0, 1>>, <<0, 1, 2>> }

DataOver(n) == [1..n -> SeriesSamples]

\* unstructured: cube (time, node), one longitude and one latitude per node
UnstructuredCubes ==
    { [ndim |-> 2, sshape |-> <<Len(x)>>, X |-> Vec(x), Y |-> Vec(y), data |-> d] :
        <<x, y, d>> \in { t \in LonAxes \X LatAxes \X DataOver(3) \cup
                                LonAxes \X LatAxes \X DataOver(2) \cup
                                LonAxes \X LatAxes \X DataOver(1) :
                          Len(t[1]) = Len(t[2]) /\ Len(t[3]) = Len(t[1]) } }

StructShapes == { <<x, y>> \in LonAxes \X LatAxes : Len(y) <= 2 }

\* structured, separable axes: cube (time, y, x), 1-D longitude and latitude
Structured1DCubes ==
    UNION { { [ndim |-> 3, sshape |-> <<Len(s[2]), Len(s[1])>>,
               X |-> Vec(s[1]), Y |-> Vec(s[2]), data |-> d] :
              d \in DataOver(Len(s[1]) * Len(s[2])) } : s \in StructShapes }

\* structured, 2-D coordinates: cube (time, y, x), longitude and latitude (y, x)
Structured2DCubes ==
    UNION { { [ndim |-> 3, sshape |-> <<Len(s[2]), Len(s[1])>>,
               X |-> Array(<<Len(s[2]), Len(s[1])>>,
                           [n \in 1..(Len(s[1]) * Len(s[2])) |-> s[1][((n - 1) % Len(s[1])) + 1]]),
               Y |-> Array(<<Len(s[2]), Len(s[1])>>,
                           [n \in 1..(Len(s[1]) * Len(s[2])) |-> s[2][((n - 1) \div Len(s[1])) + 1]]),
               data |-> d] :
              d \in DataOver(Len(s[1]) * Len(s[2])) } : s \in StructShapes }

Cubes == UnstructuredCubes \cup Structured1DCubes \cup Structured2DCubes

\* cube[(slice(None),) + idx]: more keys than dimensions, or a key out of
\* range, is an IndexError; otherwise the time series of the cell
RECURSIVE ravel_multi_index(_, _)
ravel_multi_index(idx, shape) ==
    IF idx = <<>> THEN 0
    ELSE Head(idx) * Prod(Tail(shape)) + ravel_multi_index(Tail(idx), Tail(shape))

NoSeries == [none |-> TRUE, cell |-> <<>>, data |-> <<>>]

cube_getitem(c, idx) ==
    IF 1 + Len(idx) > c.ndim
      THEN [err |-> TRUE, series |-> NoSeries]
    ELSE IF \E d \in DOMAIN idx : idx[d] < 0 \/ idx[d] >= c.sshape[d]
      THEN [err |-> TRUE, series |-> NoSeries]
    ELSE [err |-> FALSE,
          series |-> [none |-> FALSE, cell |-> idx,
                      data |-> c.data[ravel_multi_index(idx, c.sshape) + 1]]]

(***************************************************************************)
(* make_tree.                                                              *)
(***************************************************************************)
meshgrid(x, y) ==
    LET nx == Len(x.flat)
        ny == Len(y.flat)
    IN  << Array(<<ny, nx>>, [n \in 1..(ny * nx) |-> x.flat[((n - 1) % nx) + 1]]),
           Array(<<ny, nx>>, [n \in 1..(ny * nx) |-> y.flat[((n - 1) \div nx) + 1]]) >>

Min(a, b) == IF a <= b THEN a ELSE b

\* zip of two flat arrays (a list of pairs, as long as the shorter one)
zip(a, b) == [n \in 1..Min(Len(a), Len(b)) |-> <<a[n], b[n]>>]

NoTree == [built |-> FALSE, data |-> <<>>, lon |-> EmptyArr, lat |-> EmptyArr]

\* mutant: the axes are paired element by element, never meshed
make_tree_nomesh(c) ==
    LET lon == wrap_lon180(c.X)
    IN  [built |-> TRUE, data |-> zip(lon.flat, c.Y.flat), lon |-> lon, lat |-> c.Y]

make_tree(c) ==
    LET lon  == wrap_lon180(c.X)
        lat  == c.Y
        mesh == (ndim(lon) = 1) /\ (ndim(lat) = 1) /\ (c.ndim = 3)
        lon2 == IF mesh THEN meshgrid(lon, lat)[1] ELSE lon
        lat2 == IF mesh THEN meshgrid(lon, lat)[2] ELSE lat
    IN  [built |-> TRUE, data |-> zip(lon2.flat, lat2.flat), lon |-> lon2, lat |-> lat2]

(***************************************************************************)
(* KDTree.query: the k nearest points in ascending distance, points at the *)
(* same distance in either order, padded with (inf, n) when k exceeds the  *)
(* number n of points.                                                     *)
(***************************************************************************)
Inf == [inf |-> TRUE, d2 |-> 0]

Fin(d2) == [inf |-> FALSE, d2 |-> d2]

Dist2(p, xi, yi) == (p[1] - xi) * (p[1] - xi) + (p[2] - yi) * (p[2] - yi)

RECURSIVE Nearest(_, _, _, _, _)
Nearest(data, xi, yi, S, k) ==
    IF k = 0 THEN { <<>> }
    ELSE IF S = {}
      THEN { [n \in 1..k |-> [d |-> Inf, i |-> Len(data)]] }
    ELSE LET closest == { n \in S : \A m \in S :
                            Dist2(data[n], xi, yi) <= Dist2(data[m], xi, yi) }
         IN  UNION { { << [d |-> Fin(Dist2(data[n], xi, yi)), i |-> n - 1] >> \o rest :
                         rest \in Nearest(data, xi, yi, S \ {n}, k - 1) } : n \in closest }

query(data, xi, yi, k) == Nearest(data, xi, yi, DOMAIN data, k)

\* distances <= max_dist, on distances carried by their squares
Leq(d, max_dist) ==
    IF d.inf THEN max_dist.inf
    ELSE max_dist.inf \/ d.d2 <= max_dist.d * max_dist.d

(***************************************************************************)
(* get_nearest_water.                                                      *)
(***************************************************************************)
\* np.unravel_index(indices, shape): one coordinate array per dimension of
\* shape; an identifier outside the shape is a ValueError
unravel_index(indices, shape) ==
    [err    |-> \E n \in DOMAIN indices : indices[n] < 0 \/ indices[n] >= Prod(shape),
     coords |-> [d \in DOMAIN shape |->
                    [n \in DOMAIN indices |->
                        (indices[n] \div Prod(SubSeq(shape, d + 1, Len(shape)))) % shape[d]]]]

\* ma.masked_invalid(series.data).filled(fill_value=0)
filled(data) == [t \in DOMAIN data |-> IF data[t].valid THEN data[t].v ELSE 0]

RECURSIVE Sum(_)
Sum(s) == IF s = <<>> THEN 0 ELSE Head(s) + Sum(Tail(s))

\* arr.std() >= min_var, for min_var >= 0, on the squares:
\* std^2 = (n * sum(x^2) - sum(x)^2) / n^2
std_geq(arr, min_var) ==
    LET n == Len(arr)
    IN  n > 0 /\
        n * Sum([t \in DOMAIN arr |-> arr[t] * arr[t]]) - Sum(arr) * Sum(arr)
            >= min_var * min_var * n * n

NoDist == [none |-> TRUE, inf |-> FALSE, d2 |-> 0]

SomeDist(d) == [none |-> FALSE, inf |-> d.inf, d2 |-> d.d2]

ErrNoData      == "ValueError: No data found."
ErrNoDataDist  == "ValueError: No data found for (xi,yi) using max_dist."
ErrUnravel     == "ValueError: invalid entry in index array"
ErrUnpack      == "ValueError: need more than 1 value to unpack"
ErrIndex       == "IndexError: more slices requested than dimensions"

Raise(exc, kept, examined) ==
    [status |-> "raise", exc |-> exc, series |-> NoSeries, dist |-> NoDist, idx |-> <<>>,
     kept |-> kept, unraveled |-> <<>>, examined |-> examined]

Return(series, dist, idx, kept, examined) ==
    [status |-> "return", exc |-> "", series |-> series, dist |-> dist, idx |-> idx,
     kept |-> kept, unraveled |-> <<>>, examined |-> examined]

\* the for loop of lines 167-174 from its p-th iteration on; series, dist and
\* idx are the loop variables as left by the iterations before.  kept (the
\* identifiers that passed the distance mask), unraveled (those handed to
\* np.unravel_index) and examined (those whose cell the loop has sliced) only
\* record what the call did.
RECURSIVE loop(_, _, _, _, _, _, _, _, _, _)
loop(c, distances, i, j, min_var, p, series, dist, idx, kept) ==
    IF p > Min(Len(distances), Min(Len(i), Len(j)))
      THEN Return(series, dist, idx, kept, SubSeq(kept, 1, p - 1))
    ELSE LET got == cube_getitem(c, <<i[p], j[p]>>)
         IN  IF got.err
               THEN Raise(ErrIndex, kept, SubSeq(kept, 1, p))
             ELSE IF std_geq(filled(got.series.data), min_var)
               THEN Return(got.series, SomeDist(distances[p]), <<i[p], j[p]>>,
                           kept, SubSeq(kept, 1, p))
             ELSE loop(c, distances, i, j, min_var, p + 1,
                       got.series, SomeDist(distances[p]), <<i[p], j[p]>>, kept)

\* `mask is None`: mask is the array distances <= max_dist, never None
mask_is_None(mask) == FALSE

\* q is what tree.query(np.array([xi, yi]).T, k=k) returned
get_nearest_water(c, q, max_dist, min_var) ==
    LET distances0 == [n \in DOMAIN q |-> q[n].d]
        indices0   == [n \in DOMAIN q |-> q[n].i]
        mask       == [n \in DOMAIN q |-> Leq(distances0[n], max_dist)]
        distances  == Compress(distances0, mask)
        indices    == Compress(indices0, mask)
    IN  IF Len(indices0) = 0 THEN Raise(ErrNoData, <<>>, <<>>)
        ELSE IF mask_is_None(mask) THEN Raise(ErrNoDataDist, <<>>, <<>>)
        ELSE IF (ndim(c.X) = 1) /\ (c.ndim = 2)
          THEN loop(c, distances, indices, indices, min_var, 1,
                    NoSeries, NoDist, <<>>, indices)
        ELSE LET u == unravel_index(indices, c.X.shape)
                 r == IF u.err THEN Raise(ErrUnravel, indices, <<>>)
                      ELSE IF Len(u.coords) # 2 THEN Raise(ErrUnpack, indices, <<>>)
                      ELSE loop(c, distances, u.coords[1], u.coords[2], min_var, 1,
                                NoSeries, NoDist, <<>>, indices)
             IN  [r EXCEPT !.unraveled = indices]

(***************************************************************************)
(* The notebook: it either normalises a longitude array (and may normalise *)
(* the result again), or loads a cube, builds its index and searches it.   *)
(***************************************************************************)
LonInputs ==
    { Scalar(v) : v \in (-LonBound)..LonBound } \cup
    { Vec(s) : s \in LonAxes \cup { <<-540, -181, -180>>, <<179, 181, 360, 720>> } }

QueryLons == { -1, 0 }

QueryLats == { 0 }

MaxDists == { [inf |-> FALSE, d |-> m] : m \in 0..MaxDistBound } \cup { [inf |-> TRUE, d |-> 0] }

NoCall == [xi |-> 0, yi |-> 0, k |-> 0, max_dist |-> [inf |-> FALSE, d |-> 0],
           min_var |-> 0, q |-> <<>>]

NoRes == [call |-> NoCall,
          out  |-> [status |-> "none", exc |-> "", series |-> NoSeries, dist |-> NoDist,
                    idx |-> <<>>, kept |-> <<>>, unraveled |-> <<>>, examined |-> <<>>]]

InitLon ==
    /\ lon_arg \in LonInputs
    /\ lon_ret = EmptyArr
    /\ ncalls = 0
    /\ cube = NoCube
    /\ tree = NoTree
    /\ res = NoRes

InitCube ==
    /\ lon_arg = EmptyArr
    /\ lon_ret = EmptyArr
    /\ ncalls = 0
    /\ cube \in Cubes
    /\ tree = NoTree
    /\ res = NoRes

Init == InitLon \/ InitCube

\* lon = wrap_lon180(lon)
WrapLon180 ==
    /\ cube = NoCube
    /\ ncalls < MaxCalls
    /\ lon_arg' = (IF ncalls = 0 THEN lon_arg ELSE lon_ret)
    /\ lon_ret' = wrap_lon180(lon_arg')
    /\ ncalls' = ncalls + 1
    /\ UNCHANGED <<cube, tree, res>>

\* tree, lon, lat = make_tree(cube)
MakeTree ==
    /\ cube # NoCube
    /\ ~tree.built
    /\ tree' = make_tree(cube)
    /\ UNCHANGED <<lon_arg, lon_ret, ncalls, cube, res>>

\* series, dist, idx = get_nearest_water(cube, tree, xi, yi, k, max_dist, min_var)
GetNearestWater ==
    /\ tree.built
    /\ res = NoRes
    /\ \E xi \in QueryLons, yi \in QueryLats, k \in 1..MaxK,
          max_dist \in MaxDists, min_var \in 0..MaxMinVar :
         \E q \in query(tree.data, xi, yi, k) :
            res' = [call |-> [xi |-> xi, yi |-> yi, k |-> k, max_dist |-> max_dist,
                              min_var |-> min_var, q |-> q],
                    out  |-> get_nearest_water(cube, q, max_dist, min_var)]
    /\ UNCHANGED <<lon_arg, lon_ret, ncalls, cube, tree>>

Next == WrapLon180 \/ MakeTree \/ GetNearestWater

Spec == Init /\ [][Next]_vars

(***************************************************************************)
(* Vocabulary of the properties.                                           *)
(***************************************************************************)
Called == res.out.status # "none"

Wrapped == ncalls >= 1

\* number of grid points in the index
NPoints == Len(tree.data)

\* the candidates of the query, by position in ascending distance
Cands == DOMAIN res.call.q

Within(p) == Leq(res.call.q[p].d, res.call.max_dist)

\* a candidate that is a grid point (not one of the k - n missing neighbours)
IsPoint(p) == res.call.q[p].i < NPoints

SeriesOf(n) == cube.data[n + 1]

Qualifies(p) ==
    /\ IsPoint(p)
    /\ Within(p)
    /\ std_geq(filled(SeriesOf(res.call.q[p].i)), res.call.min_var)

\* the cell of identifier n in the cube: the node n of an unstructured cube,
\* (row, col) with row * cols + col = n against the mesh shape otherwise
CellOf(n) ==
    IF cube.ndim = 2 THEN <<n>>
    ELSE <<n \div tree.lon.shape[2], n % tree.lon.shape[2]>>

\* the call returned series, distance and cell coordinate of candidate p
ReturnedCandidate(p) ==
    /\ res.out.status = "return"
    /\ res.out.dist = SomeDist(res.call.q[p].d)
    /\ res.out.idx = CellOf(res.call.q[p].i)
    /\ ~res.out.series.none
    /\ res.out.series.cell = res.out.idx
    /\ res.out.series.data = SeriesOf(res.call.q[p].i)

InRange180(v) == -180 <= v /\ v < 180

(***************************************************************************)
(* C1.  get_nearest_water fails with the "no data found ... using          *)
(* max_dist" error whenever none of the k candidates of the query is       *)
(* within max_dist; in particular with max_dist = 0 and a query point that *)
(* coincides with no grid point.                                           *)
(***************************************************************************)
C1_NotFoundBeyondMaxDist ==
    (Called /\ \A p \in Cands : ~Within(p))
        => (res.out.status = "raise" /\ res.out.exc = ErrNoDataDist)

(***************************************************************************)
(* C2.  When some candidate within max_dist has a filled series of         *)
(* standard deviation >= min_var, the call returns the series, distance    *)
(* and cell coordinate of the nearest such candidate.                      *)
(***************************************************************************)
C2_NearestQualifyingReturned ==
    (Called /\ \E p \in Cands : Qualifies(p))
        => LET first == CHOOSE p \in Cands :
                            Qualifies(p) /\ \A r \in Cands : Qualifies(r) => p <= r
           IN  ReturnedCandidate(first)

(***************************************************************************)
(* C3.  When some candidate is within max_dist but none of them has        *)
(* standard deviation >= min_var, the call does not fail: it returns the   *)
(* triple of the farthest candidate within max_dist, all three components  *)
(* belonging to that candidate.                                            *)
(***************************************************************************)
C3_FarthestReturnedWhenNoneQualifies ==
    (/\ Called
     /\ \E p \in Cands : IsPoint(p) /\ Within(p)
     /\ \A p \in Cands : ~Qualifies(p))
        => LET last == CHOOSE p \in Cands :
                           /\ IsPoint(p) /\ Within(p)
                           /\ \A r \in Cands : (IsPoint(r) /\ Within(r)) => r <= p
           IN  ReturnedCandidate(last)

(***************************************************************************)
(* C4.  As claimed: every longitude wrap_lon180 returns, and so every      *)
(* longitude stored in the index, lies in the half-open [-180, 180).       *)
(***************************************************************************)
C4_Lon180HalfOpen ==
    /\ Wrapped => \A n \in DOMAIN lon_ret.flat : InRange180(lon_ret.flat[n])
    /\ tree.built => \A n \in DOMAIN tree.data : InRange180(tree.data[n][1])

(***************************************************************************)
(* C4, as amended.  Every longitude wrap_lon180 returns lies in the closed *)
(* [-180, 180] (180 and 540 give 180), and so does every longitude stored  *)
(* in the index.                                                           *)
(***************************************************************************)
C4_Lon180Closed ==
    /\ Wrapped =>
         \A n \in DOMAIN lon_ret.flat :
            -180 <= lon_ret.flat[n] /\ lon_ret.flat[n] <= 180
    /\ tree.built =>
         \A n \in DOMAIN tree.data : -180 <= tree.data[n][1] /\ tree.data[n][1] <= 180

C4_Witness ==
    Wrapped /\ lon_arg = Scalar(540) /\ lon_ret.flat = <<180>>

(***************************************************************************)
(* C5.  wrap_lon180 is idempotent: applied to its own result it returns    *)
(* that result.                                                            *)
(***************************************************************************)
C5_Lon180Idempotent == ncalls >= 2 => lon_ret = lon_arg

C5_Witness ==
    ncalls = 2 /\ lon_arg.flat = <<-1, 1, -179>> /\ lon_ret.flat = <<-1, 1, -179>>

(***************************************************************************)
(* C6.  wrap_lon180 is the identity on longitudes already in [-180, 180).  *)
(***************************************************************************)
C6_Lon180IdentityInRange ==
    (Wrapped /\ \A n \in DOMAIN lon_arg.flat : InRange180(lon_arg.flat[n]))
        => lon_ret.flat = lon_arg.flat

C6_Witness ==
    ncalls = 1 /\ lon_arg = Scalar(-180) /\ lon_ret.flat = <<-180>>

(***************************************************************************)
(* C7.  wrap_lon180 works element by element, in input order, and every    *)
(* result differs from its input by a multiple of 360; [359, 1, 181]       *)
(* becomes [-1, 1, -179].                                                  *)
(***************************************************************************)
C7_Lon180SameDirection ==
    Wrapped =>
        /\ Len(lon_ret.flat) = Len(lon_arg.flat)
        /\ \A n \in DOMAIN lon_arg.flat : (lon_ret.flat[n] - lon_arg.flat[n]) % 360 = 0
        /\ lon_arg.flat = <<359, 1, 181>> => lon_ret.flat = <<-1, 1, -179>>

C7_Witness ==
    ncalls = 1 /\ lon_arg.flat = <<359, 1, 181>> /\ lon_ret.flat = <<-1, 1, -179>>

(***************************************************************************)
(* C8.  For a structured cube with 1-D longitude and latitude axes,        *)
(* make_tree indexes exactly len(lon) * len(lat) points, one for every     *)
(* pairing of a longitude with a latitude, and returns 2-D meshed          *)
(* coordinate arrays of that size.                                         *)
(***************************************************************************)
C8_MeshIndexSize ==
    (tree.built /\ cube.ndim = 3 /\ ndim(cube.X) = 1 /\ ndim(cube.Y) = 1) =>
        LET nx == Len(cube.X.flat)
            ny == Len(cube.Y.flat)
        IN  /\ Len(tree.data) = nx * ny
            /\ \A a \in 1..nx, b \in 1..ny :
                  Cardinality({ n \in DOMAIN tree.data :
                                  /\ (tree.data[n][1] - cube.X.flat[a]) % 360 = 0
                                  /\ tree.data[n][2] = cube.Y.flat[b] })
                    = Cardinality({ a2 \in 1..nx :
                                      (cube.X.flat[a2] - cube.X.flat[a]) % 360 = 0 })
            /\ tree.lon.shape = <<ny, nx>> /\ Len(tree.lon.flat) = nx * ny
            /\ tree.lat.shape = <<ny, nx>> /\ Len(tree.lat.flat) = nx * ny

C8_Witness ==
    /\ tree.built /\ cube.ndim = 3
    /\ cube.X = Vec(<<359, 1, 181>>) /\ cube.Y = Vec(<<0, 1>>)
    /\ Len(tree.data) = 6

(***************************************************************************)
(* C9.  With k larger than the number n of grid points, the k - n missing  *)
(* neighbours (distance inf, identifier n) are never translated to a cell  *)
(* or sliced from the cube, no error comes from them, and at most n        *)
(* candidates are examined.                                                *)
(***************************************************************************)
C9_SurplusNeverDereferenced ==
    (Called /\ res.call.k > NPoints) =>
        /\ \A p \in DOMAIN res.out.unraveled : res.out.unraveled[p] < NPoints
        /\ \A p \in DOMAIN res.out.examined : res.out.examined[p] < NPoints
        /\ Len(res.out.examined) <= NPoints

(***************************************************************************)
(* C10.  The cell coordinate derived from an identifier n inverts the      *)
(* flattening of make_tree: on a structured cube, 1-D longitude axis       *)
(* included, n becomes (row, col) against the mesh shape with              *)
(* row * cols + col = n and the series is that of the grid point stored at *)
(* n; on an unstructured cube the coordinate is n itself and indexes the   *)
(* single spatial dimension.                                               *)
(***************************************************************************)
C10_UnflattenInvertsFlatten ==
    (/\ Called
     /\ \E p \in Cands : IsPoint(p) /\ Within(p)
     /\ \A p \in Cands : Within(p) => IsPoint(p))
        => /\ res.out.status = "return"
           /\ LET n == res.out.examined[Len(res.out.examined)]
              IN  /\ res.out.idx = CellOf(n)
                  /\ ravel_multi_index(res.out.idx, tree.lon.shape) = n
                  /\ res.out.series.data = SeriesOf(n)

(***************************************************************************)
(* What the search does on the cubes it can slice: a structured cube whose *)
(* longitude coordinate is 2-D, with a finite radius or k within the       *)
(* number of grid points.  There the statements of C2, C3 and C10 hold;    *)
(* with a finite radius so does that of C9, on every cube; and a call that *)
(* finds nothing within the radius returns (None, None, None).             *)
(***************************************************************************)
Coords2D == cube.ndim = 3 /\ ndim(cube.X) = 2

NoSurplusKept == ~res.call.max_dist.inf \/ res.call.k <= NPoints

Lemma_NearestQualifyingOnCoords2D ==
    (Coords2D /\ NoSurplusKept) => C2_NearestQualifyingReturned

Lemma_FarthestOnCoords2D ==
    (Coords2D /\ NoSurplusKept) => C3_FarthestReturnedWhenNoneQualifies

Lemma_UnflattenOnCoords2D == Coords2D => C10_UnflattenInvertsFlatten

Lemma_SurplusMaskedByFiniteRadius ==
    ~res.call.max_dist.inf => C9_SurplusNeverDereferenced

Lemma_NothingWithinReturnsNone ==
    (Called /\ (Coords2D \/ cube.ndim = 2) /\ \A p \in Cands : ~Within(p))
        => /\ res.out.status = "return"
           /\ res.out.series.none /\ res.out.dist.none /\ res.out.idx = <<>>

====
